---- MODULE Spec2Model ----
(***************************************************************************)
(* Model of the code-review backend (src/app.py): the rule-based analyzer  *)
(* analyze_code_simple, the in-memory review log `reviews`, and the four   *)
(* Flask routes /, /api/review, /api/history and /api/stats.               *)
(*                                                                         *)
(* Text.  A Python str is modelled run-length encoded: a text is a         *)
(* sequence of runs <<word, n>>, standing for `word` repeated n >= 1       *)
(* times.  This keeps texts of 10,000 characters and of 200 lines small.   *)
(* The words are the filler letter "x", the two whitespace characters, and *)
(* the substrings the analyzer searches for.  No searched substring occurs *)
(* inside another word or across the boundary of two words, so a substring *)
(* occurs in a text exactly when it is the word of one of its runs.        *)
(***************************************************************************)
EXTENDS Integers, Sequences, FiniteSets

VARIABLES
    reviews,    \* app.py:11, the global review log
    clock,      \* the instant the next datetime.now() returns
    request,    \* the request handled last
    response,   \* the response it got
    successes,  \* number of POST /api/review answered with success: true
    seen,       \* since then: results of the GETs, whether a POST was rejected
    pc,         \* per worker thread: where it is in review_code
    local,      \* per worker thread: the locals of review_code
    call        \* the last direct call of analyze_code_simple

vars == <<reviews, clock, request, response, successes, seen, pc, local, call>>

(***************************************************************************)
(* Bounds of the model.                                                    *)
(***************************************************************************)
MaxWords == 2      \* words in front of an analyzed text
MaxLog == 2        \* records in the log, mixed workload
MaxHistory == 12   \* records in the log, bulk workload
NumThreads == 2    \* worker threads handling POST /api/review

(***************************************************************************)
(* Python str operations on run-length encoded text.                       *)
(***************************************************************************)
NL == "\n"

Whitespace == {" ", NL}

Max(a, b) == IF a >= b THEN a ELSE b

Min(a, b) == IF a <= b THEN a ELSE b

\* x * n as a text (the empty text for n = 0)
Repeat(word, n) == IF n > 0 THEN << <<word, n>> >> ELSE <<>>

\* the text made of the given words, each once
Text(words) == [i \in 1..Len(words) |-> <<words[i], 1>>]

\* the text of one word
Str(word) == Text(<<word>>)

\* len(s)
RECURSIVE str_len(_)
str_len(s) ==
    IF s = <<>> THEN 0 ELSE Len(s[1][1]) * s[1][2] + str_len(Tail(s))

\* s.lower(), on one word
lower_word(w) ==
    CASE w = "Password" -> "password"
      [] w = "Python" -> "python"
      [] w = "JavaScript" -> "javascript"
      [] OTHER -> w

\* s.lower()
lower(s) == [i \in 1..Len(s) |-> <<lower_word(s[i][1]), s[i][2]>>]

\* needle in s
contains(needle, s) == \E i \in 1..Len(s) : s[i][1] = needle

RECURSIVE lstrip(_)
lstrip(s) ==
    IF s = <<>> THEN s
    ELSE IF s[1][1] \in Whitespace THEN lstrip(Tail(s))
    ELSE s

\* "var " is the one word that ends in whitespace without being whitespace
RECURSIVE rstrip(_)
rstrip(s) ==
    IF s = <<>> THEN s
    ELSE LET last == s[Len(s)]
             front == SubSeq(s, 1, Len(s) - 1)
         IN  IF last[1] \in Whitespace THEN rstrip(front)
             ELSE IF last[1] = "var "
                  THEN front \o Repeat("var ", last[2] - 1) \o << <<"var", 1>> >>
             ELSE s

\* s.strip()
strip(s) == rstrip(lstrip(s))

\* s.split('\n'): the list of lines, as groups [line, count] where a group
\* of count n stands for n equal consecutive lines (n > 1 only for the empty
\* lines between the newlines of one run)
RECURSIVE split_from(_, _, _)
split_from(s, cur, acc) ==
    IF s = <<>> THEN Append(acc, [line |-> cur, count |-> 1])
    ELSE IF s[1][1] = NL
         THEN split_from(Tail(s), <<>>,
                  Append(acc, [line |-> cur, count |-> 1])
                  \o (IF s[1][2] > 1
                      THEN <<[line |-> <<>>, count |-> s[1][2] - 1]>>
                      ELSE <<>>))
    ELSE split_from(Tail(s), Append(cur, s[1]), acc)

split(s) == split_from(s, <<>>, <<>>)

\* len(lines)
RECURSIVE num_lines(_)
num_lines(lines) ==
    IF lines = <<>> THEN 0 ELSE lines[1].count + num_lines(Tail(lines))

\* [i+1 for i, line in enumerate(lines) if hit(line)], the groups given with
\* their hit flag; `first` is the number of the first line of the groups
RECURSIVE numbers_where(_, _)
numbers_where(groups, first) ==
    IF groups = <<>> THEN <<>>
    ELSE (IF groups[1].hit
          THEN [k \in 1..groups[1].count |-> first + k - 1]
          ELSE <<>>)
         \o numbers_where(Tail(groups), first + groups[1].count)

long_lines(lines) ==
    numbers_where([i \in 1..Len(lines) |->
                      [hit |-> str_len(lines[i].line) > 100,
                       count |-> lines[i].count]], 1)

print_lines(lines) ==
    numbers_where([i \in 1..Len(lines) |->
                      [hit |-> contains("print(", lines[i].line),
                       count |-> lines[i].count]], 1)

(***************************************************************************)
(* analyze_code_simple.  Each check yields the issues and suggestions it   *)
(* appends and the amount it takes off the score.  An absent line (None)   *)
(* is <<>>, a line number n is <<n>>.                                      *)
(***************************************************************************)
Issue(severity, line, message, listed) ==
    [severity |-> severity, line |-> line,
     message |-> [text |-> message, lines |-> listed]]

Suggestion(category) == [category |-> category]

Found(issues, suggestions, penalty) ==
    [issues |-> issues, suggestions |-> suggestions, penalty |-> penalty]

\* Check 1: code length
check_length(lines) ==
    IF num_lines(lines) > 200
    THEN Found(<<Issue("warning", <<>>, "file is quite large", <<>>)>>, <<>>, 5)
    ELSE Found(<<>>, <<>>, 0)

\* Check 2: long lines
check_long_lines(lines) ==
    LET ll == long_lines(lines)
    IN  IF ll # <<>>
        THEN Found(<<Issue("info", <<ll[1]>>,
                           "lines exceed 100 characters",
                           SubSeq(ll, 1, Min(3, Len(ll))))>>, <<>>, 3)
        ELSE Found(<<>>, <<>>, 0)

\* Check 3: Python-specific checks
check_python(code, lines, language) ==
    IF lower(language) = Str("python")
    THEN LET pl == print_lines(lines)
             no_try == ~contains("try:", code)
             no_doc == ~contains("\"\"\"", code) /\ ~contains("'''", code)
         IN  Found(IF pl # <<>>
                   THEN <<Issue("info", <<pl[1]>>, "use logging", <<>>)>>
                   ELSE <<>>,
                   (IF no_try THEN <<Suggestion("Error Handling")>> ELSE <<>>)
                   \o (IF no_doc THEN <<Suggestion("Documentation")>> ELSE <<>>),
                   (IF no_try THEN 5 ELSE 0) + (IF no_doc THEN 5 ELSE 0))
    ELSE Found(<<>>, <<>>, 0)

\* check 4 with a fault: 'var ' is looked for whatever the label
check_javascript_Unguarded(code, language) ==
    LET branch == lower(language) \in {Str("javascript"), Str("java")}
        var == contains("var ", code)
        log == branch /\ contains("console.log", code)
    IN  Found((IF var
               THEN <<Issue("warning", <<>>, "avoid var", <<>>)>>
               ELSE <<>>)
              \o (IF log
                  THEN <<Issue("info", <<>>, "remove console.log", <<>>)>>
                  ELSE <<>>),
              <<>>,
              IF var THEN 5 ELSE 0)

\* Check 4: JavaScript/Java specific
check_javascript(code, language) ==
    IF lower(language) \in {Str("javascript"), Str("java")}
    THEN LET var == lower(language) = Str("javascript") /\ contains("var ", code)
             log == contains("console.log", code)
         IN  Found((IF var
                    THEN <<Issue("warning", <<>>, "avoid var", <<>>)>>
                    ELSE <<>>)
                   \o (IF log
                       THEN <<Issue("info", <<>>, "remove console.log", <<>>)>>
                       ELSE <<>>),
                   <<>>,
                   IF var THEN 5 ELSE 0)
    ELSE Found(<<>>, <<>>, 0)

\* check 5 with a fault: score += 20
check_security_Added(code) ==
    IF contains("password", lower(code)) /\ contains("=", code)
    THEN Found(<<Issue("critical", <<>>, "hardcoded password", <<>>)>>, <<>>,
               -20)
    ELSE Found(<<>>, <<>>, 0)

\* Check 5: security patterns
check_security(code) ==
    IF contains("password", lower(code)) /\ contains("=", code)
    THEN Found(<<Issue("critical", <<>>, "hardcoded password", <<>>)>>, <<>>, 20)
    ELSE Found(<<>>, <<>>, 0)

analyze_code_simple(code, language) ==
    LET lines == split(code)
        c1 == check_length(lines)
        c2 == check_long_lines(lines)
        c3 == check_python(code, lines, language)
        c4 == check_javascript(code, language)
        c5 == check_security(code)
        issues == c1.issues \o c2.issues \o c3.issues \o c4.issues \o c5.issues
        score == 100 - c1.penalty - c2.penalty - c3.penalty - c4.penalty
                     - c5.penalty
        suggestions ==
            c3.suggestions
            \o (IF issues = <<>> THEN <<Suggestion("Code Quality")>> ELSE <<>>)
            \o <<Suggestion("Performance"), Suggestion("Best Practices")>>
    IN  [issues |-> issues,
         suggestions |-> suggestions,
         score |-> Max(score, 0),
         summary |-> [found |-> Len(issues), score |-> Max(score, 0)]]

(***************************************************************************)
(* The texts and language labels the analyzer is called with: up to        *)
(* MaxWords words, then a run of x, then a run of newlines.  The run       *)
(* lengths sit on both sides of the thresholds of checks 1 and 2.          *)
(***************************************************************************)
Words == {"x", " ", NL, "try:", "\"\"\"", "'''", "print(", "var ",
          "console.log", "password", "Password", "="}

Languages == {Str(w) : w \in {"python", "Python", "javascript", "JavaScript",
                             "java", "ruby"}}

WordSeqs == UNION {[1..n -> Words] : n \in 0..MaxWords}

Widths == {0, 100, 101}

Newlines == {0, 199, 200}

Codes == {Text(ws) \o Repeat("x", w) \o Repeat(NL, n) :
             ws \in WordSeqs, w \in Widths, n \in Newlines}

NoCall == [made |-> FALSE]

(***************************************************************************)
(* JSON request bodies.  A body is either not JSON at all or a JSON value; *)
(* an object is a function from its keys to values, a string is a text.    *)
(***************************************************************************)
NotJson == [type |-> "malformed"]

JNull == [type |-> "null"]

JNumber(n) == [type |-> "number", value |-> n]

JString(text) == [type |-> "string", text |-> text]

JArray(items) == [type |-> "array", items |-> items]

JObject(members) == [type |-> "object", members |-> members]

Raise(exc) == [raised |-> TRUE, exc |-> exc]

Return(value) == [raised |-> FALSE, value |-> value]

\* request.get_json(): Flask answers a body that does not parse by raising
\* werkzeug's BadRequest, an Exception; JSON null is None
get_json(body) ==
    IF body.type = "malformed" THEN Raise("400 Bad Request") ELSE Return(body)

\* bool(data)
truthy(data) ==
    CASE data.type = "null" -> FALSE
      [] data.type = "number" -> data.value # 0
      [] data.type = "string" -> data.text # <<>>
      [] data.type = "array" -> data.items # <<>>
      [] data.type = "object" -> DOMAIN data.members # {}

\* 'code' in data
has_code(data) ==
    CASE data.type = "number" -> Raise("TypeError")
      [] data.type = "string" -> Return(contains("code", data.text))
      [] data.type = "array" ->
            Return(\E i \in 1..Len(data.items) :
                       data.items[i] = JString(Str("code")))
      [] data.type = "object" -> Return("code" \in DOMAIN data.members)

\* data.get(key, default)
dict_get(data, key, default) ==
    IF data.type # "object" THEN Raise("AttributeError")
    ELSE IF key \in DOMAIN data.members THEN Return(data.members[key])
    ELSE Return(default)

JsonResponse(status, body) == [status |-> status, body |-> body]

bad_request(message) == JsonResponse(400, [error |-> message])

\* except Exception as e
internal_error(exc) == JsonResponse(500, [error |-> exc])

Answer(resp) == [done |-> TRUE, response |-> resp]

\* review_code up to the call of the analyzer: the response of a request
\* that ends here, or the locals of one that goes on
validate_and_analyze(body) ==
    LET got == get_json(body)
        data == got.value
        has == has_code(data)
        code == dict_get(data, "code", JString(<<>>))
        language == dict_get(data, "language", JString(Str("python")))
    IN  IF got.raised THEN Answer(internal_error(got.exc))
        ELSE IF ~truthy(data) THEN Answer(bad_request("Code is required"))
        ELSE IF has.raised THEN Answer(internal_error(has.exc))
        ELSE IF ~has.value THEN Answer(bad_request("Code is required"))
        ELSE IF code.raised THEN Answer(internal_error(code.exc))
        ELSE IF language.raised THEN Answer(internal_error(language.exc))
        ELSE IF code.value.type # "string"
             THEN Answer(internal_error("AttributeError"))
        ELSE IF str_len(strip(code.value.text)) = 0
             THEN Answer(bad_request("Code cannot be empty"))
        ELSE IF str_len(code.value.text) > 10000
             THEN Answer(bad_request("Code is too large (max 10,000 characters)"))
        ELSE IF language.value.type # "string"
             THEN Answer(internal_error("AttributeError"))
        ELSE [done |-> FALSE,
              code |-> code.value.text,
              language |-> language.value.text,
              analysis |-> analyze_code_simple(code.value.text,
                                               language.value.text)]

\* review_entry with a fault: 'id': len(reviews)
review_entry_FromZero(log, now, language, code, analysis) ==
    [id |-> Len(log),
     timestamp |-> now,
     language |-> language,
     code_length |-> str_len(code),
     score |-> analysis.score,
     issues_count |-> Len(analysis.issues)]

review_entry(log, now, language, code, analysis) ==
    [id |-> Len(log) + 1,
     timestamp |-> now,
     language |-> language,
     code_length |-> str_len(code),
     score |-> analysis.score,
     issues_count |-> Len(analysis.issues)]

review_success(analysis, entry) ==
    JsonResponse(200, [success |-> TRUE,
                       analysis |-> analysis,
                       timestamp |-> entry.timestamp])

\* review_code with a fault: a request is logged whether or not it passes
review_code_StoreFirst(body, log, now) ==
    LET v == validate_and_analyze(body)
        blank == [issues |-> <<>>, score |-> 0]
    IN  IF v.done
        THEN [reviews |-> Append(log, review_entry(log, now, Str("python"),
                                                   <<>>, blank)),
              response |-> v.response]
        ELSE LET entry == review_entry(log, now, v.language, v.code, v.analysis)
             IN  [reviews |-> Append(log, entry),
                  response |-> review_success(v.analysis, entry)]

\* POST /api/review, handled in one piece: the log and the response
review_code(body, log, now) ==
    LET v == validate_and_analyze(body)
    IN  IF v.done
        THEN [reviews |-> log, response |-> v.response]
        ELSE LET entry == review_entry(log, now, v.language, v.code, v.analysis)
             IN  [reviews |-> Append(log, entry),
                  response |-> review_success(v.analysis, entry)]

\* GET /
home ==
    JsonResponse(200, [message |-> "AI Code Review API",
                       version |-> "1.0",
                       endpoints |-> {"/api/review", "/api/history"}])

\* s[::-1]
reversed(s) == [i \in 1..Len(s) |-> s[Len(s) + 1 - i]]

\* s[-10:]
last_ten(s) == SubSeq(s, Max(1, Len(s) - 9), Len(s))

\* get_history with a fault: the last ten, oldest first
get_history_Unreversed(log) ==
    JsonResponse(200, [success |-> TRUE, reviews |-> last_ten(log)])

\* GET /api/history
get_history(log) ==
    JsonResponse(200, [success |-> TRUE, reviews |-> reversed(last_ten(log))])

RECURSIVE sum_of(_, _)
sum_of(log, field) ==
    IF log = <<>> THEN 0 ELSE log[1][field] + sum_of(Tail(log), field)

\* round(total / n, 1), in tenths.  total / n is the double nearest to the
\* quotient and round() rounds that double correctly, a tie to the even
\* tenth.  A quotient that is a tie in the reals is odd/20; for n < 20 it is
\* odd/4, a double, so that the tie is the double's as well.
round1(total, n) ==
    LET q == (10 * total) \div n
        r == (10 * total) % n
    IN  IF 2 * r < n THEN q
        ELSE IF 2 * r > n THEN q + 1
        ELSE IF q % 2 = 0 THEN q ELSE q + 1

\* get_stats with a fault: statistics of the records /api/history shows
get_stats_Recent(log) ==
    IF log = <<>>
    THEN JsonResponse(200, [success |-> TRUE,
                            stats |-> [total_reviews |-> 0,
                                       avg_score |-> 0,
                                       total_issues |-> 0]])
    ELSE LET shown == last_ten(log)
         IN  JsonResponse(200,
                 [success |-> TRUE,
                  stats |-> [total_reviews |-> Len(shown),
                             avg_score |-> round1(sum_of(shown, "score"),
                                                  Len(shown)),
                             total_issues |-> sum_of(shown, "issues_count")]])

\* GET /api/stats; avg_score is in tenths
get_stats(log) ==
    IF log = <<>>
    THEN JsonResponse(200, [success |-> TRUE,
                            stats |-> [total_reviews |-> 0,
                                       avg_score |-> 0,
                                       total_issues |-> 0]])
    ELSE LET total_reviews == Len(log)
         IN  JsonResponse(200,
                 [success |-> TRUE,
                  stats |-> [total_reviews |-> total_reviews,
                             avg_score |-> round1(sum_of(log, "score"),
                                                  total_reviews),
                             total_issues |-> sum_of(log, "issues_count")]])

(***************************************************************************)
(* The requests of the clients.  The mixed workload sends every kind of    *)
(* body the handler tells apart; the bulk workload sends two bodies that   *)
(* are accepted, with scores 100 and 95.                                   *)
(***************************************************************************)
Body(code, language) ==
    JObject([code |-> JString(code), language |-> JString(language)])

CodeOnly(code) == JObject([code |-> JString(code)])

CleanPython == Body(Text(<<"try:", NL, "\"\"\"">>), Str("python"))

PrintHi == Body(Text(<<"print(", "x">>), Str("python"))

VarConsoleLog ==
    Body(Text(<<"var ", "x", " ", "=", " ", "x", "console.log">>),
         Str("javascript"))

JavaVar == Body(Text(<<"var ", "x">>), Str("java"))

WorstPython ==
    Body(Text(<<"password", "=", "var ">>) \o Repeat("x", 101)
         \o Repeat(NL, 200), Str("Python"))

TenThousand == CodeOnly(Repeat("x", 10000))

RubyPassword == Body(Text(<<"Password", "=">>), Str("ruby"))

AcceptedBodies ==
    {CleanPython, PrintHi, VarConsoleLog, JavaVar, WorstPython, TenThousand,
     RubyPassword}

RejectedBodies ==
    {NotJson,
     JNull,
     JNumber(5),
     JArray(<<JString(Str("code"))>>),
     JObject(<<>>),
     JObject([language |-> JString(Str("python"))]),
     JObject([code |-> JNull]),
     Body(<<>>, Str("python")),
     CodeOnly(Repeat(" ", 10001)),
     CodeOnly(Repeat("x", 10001)),
     JObject([code |-> JString(Str("x")), language |-> JNull])}

MixedBodies == AcceptedBodies \cup RejectedBodies

BulkBodies == {CleanPython, VarConsoleLog}

\* every text and label of the analyzer's input family
WideBodies == {Body(code, language) : code \in Codes, language \in Languages}

ThreadBodies == BulkBodies \cup {Body(<<>>, Str("python"))}

Threads == 1..NumThreads

NoBody == [type |-> "none"]

NothingSeen == [stats |-> <<>>, history |-> <<>>, rejected |-> FALSE]

(***************************************************************************)
(* The state after the process has started.                                *)
(***************************************************************************)
Init ==
    /\ reviews = <<>>
    /\ clock = 1
    /\ request = [route |-> "none", body |-> NoBody]
    /\ response = JsonResponse(0, [error |-> "none"])
    /\ successes = 0
    /\ seen = NothingSeen
    /\ pc = [t \in Threads |-> "idle"]
    /\ local = [t \in Threads |-> [response |-> JsonResponse(0, [error |-> "none"])]]
    /\ call = NoCall

(***************************************************************************)
(* Requests handled one at a time.                                         *)
(***************************************************************************)
Review(bodies, cap) ==
    \E body \in bodies :
        LET r == review_code(body, reviews, clock)
            ok == r.response.status = 200
        IN  /\ Len(r.reviews) <= cap
            /\ reviews' = r.reviews
            /\ clock' = IF r.reviews # reviews THEN clock + 1 ELSE clock
            /\ request' = [route |-> "/api/review", body |-> body]
            /\ response' = r.response
            /\ successes' = IF ok THEN successes + 1 ELSE successes
            /\ seen' = IF ok THEN NothingSeen ELSE [seen EXCEPT !.rejected = TRUE]
            /\ UNCHANGED <<pc, local, call>>

PostReview == Review(MixedBodies, MaxLog)

PostReviewBulk == Review(BulkBodies, MaxHistory)

GetHome ==
    /\ request' = [route |-> "/", body |-> NoBody]
    /\ response' = home
    /\ UNCHANGED <<reviews, clock, successes, seen, pc, local, call>>

GetHistory ==
    /\ request' = [route |-> "/api/history", body |-> NoBody]
    /\ response' = get_history(reviews)
    /\ seen' = [seen EXCEPT !.history = <<get_history(reviews).body>>]
    /\ UNCHANGED <<reviews, clock, successes, pc, local, call>>

GetStats ==
    /\ request' = [route |-> "/api/stats", body |-> NoBody]
    /\ response' = get_stats(reviews)
    /\ seen' = [seen EXCEPT !.stats = <<get_stats(reviews).body>>]
    /\ UNCHANGED <<reviews, clock, successes, pc, local, call>>

Next == PostReview \/ GetHome \/ GetHistory \/ GetStats

Spec == Init /\ [][Next]_vars

NextBulk == PostReviewBulk \/ GetHome \/ GetHistory \/ GetStats

SpecBulk == Init /\ [][NextBulk]_vars

(***************************************************************************)
(* The first POST /api/review of the process, with any text and label of   *)
(* the analyzer's input family, and the statistics after it.               *)
(***************************************************************************)
FirstReview == request.route = "none" /\ Review(WideBodies, 1)

NextFirst == FirstReview \/ GetStats

SpecFirst == Init /\ [][NextFirst]_vars

(***************************************************************************)
(* POST /api/review handled by worker threads: the threads share `reviews` *)
(* and take no lock, so a thread may be preempted between any two          *)
(* statements of review_code.                                              *)
(***************************************************************************)
InFlight == Cardinality({t \in Threads : pc[t] # "idle"})

\* lines 137-153: get_json, the validation, the analysis
Receive(t) ==
    /\ pc[t] = "idle"
    /\ Len(reviews) + InFlight < MaxLog
    /\ \E body \in ThreadBodies :
           LET v == validate_and_analyze(body)
           IN  IF v.done
               THEN /\ local' = [local EXCEPT ![t] = [response |-> v.response]]
                    /\ pc' = pc
               ELSE /\ local' = [local EXCEPT ![t] =
                                    [code |-> v.code, language |-> v.language,
                                     analysis |-> v.analysis]]
                    /\ pc' = [pc EXCEPT ![t] = "entry"]
    /\ UNCHANGED <<reviews, clock, request, response, successes, seen, call>>

\* lines 156-163: review_entry is built, len(reviews) and the clock are read
BuildEntry(t) ==
    /\ pc[t] = "entry"
    /\ local' = [local EXCEPT ![t] =
                    [analysis |-> local[t].analysis,
                     review_entry |-> review_entry(reviews, clock,
                                                   local[t].language,
                                                   local[t].code,
                                                   local[t].analysis)]]
    /\ clock' = clock + 1
    /\ pc' = [pc EXCEPT ![t] = "append"]
    /\ UNCHANGED <<reviews, request, response, successes, seen, call>>

\* line 164: reviews.append(review_entry)
AppendEntry(t) ==
    /\ pc[t] = "append"
    /\ reviews' = Append(reviews, local[t].review_entry)
    /\ pc' = [pc EXCEPT ![t] = "reply"]
    /\ UNCHANGED <<clock, request, response, successes, seen, local, call>>

\* lines 166-170: the response
Reply(t) ==
    /\ pc[t] = "reply"
    /\ local' = [local EXCEPT ![t] =
                    [response |-> review_success(local[t].analysis,
                                                 local[t].review_entry)]]
    /\ pc' = [pc EXCEPT ![t] = "idle"]
    /\ UNCHANGED <<reviews, clock, request, response, successes, seen, call>>

NextThreads ==
    \E t \in Threads :
        Receive(t) \/ BuildEntry(t) \/ AppendEntry(t) \/ Reply(t)

SpecThreads == Init /\ [][NextThreads]_vars

(***************************************************************************)
(* The analyzer called on its own, once, with any text and label.          *)
(***************************************************************************)
AnalyzeCall ==
    /\ ~call.made
    /\ \E code \in Codes, language \in Languages :
           call' = [made |-> TRUE, code |-> code, language |-> language,
                    result |-> analyze_code_simple(code, language)]
    /\ UNCHANGED <<reviews, clock, request, response, successes, seen, pc, local>>

NextAnalyze == AnalyzeCall

SpecAnalyze == Init /\ [][NextAnalyze]_vars

(***************************************************************************)
(* Properties.                                                             *)
(***************************************************************************)
ReviewRoute == "/api/review"

Accepted == request.route = ReviewRoute /\ response.status = 200

\* C1: with requests handled one at a time, the k-th record of the log has
\* id k: ids start at 1, increase by one in log order, and the id of the
\* last record is the number of records.
C1_IdIsPosition == \A k \in 1..Len(reviews) : reviews[k].id = k

\* a rejected request has been handled after two accepted ones
C1_Witness ==
    /\ Len(reviews) = 2
    /\ request.route = ReviewRoute
    /\ response.status = 400

\* C2: with POST /api/review handled by concurrent threads that read the
\* length of the log and append to it in separate steps, no two records
\* of the log carry the same id and every id is its record's position.
C2_ThreadsKeepIds ==
    /\ \A i, j \in 1..Len(reviews) : i # j => reviews[i].id # reviews[j].id
    /\ \A k \in 1..Len(reviews) : reviews[k].id = k

\* C3: POST /api/review is all-or-nothing: a request answered with an error
\* (400 or 500) leaves the log as it was, and a request answered with
\* success: true has appended exactly one record, the earlier ones unchanged.
C3_AllOrNothing ==
    [][request'.route = ReviewRoute =>
          IF response'.status \in {400, 500}
          THEN reviews' = reviews
          ELSE /\ response'.status = 200
               /\ response'.body.success
               /\ Len(reviews') = Len(reviews) + 1
               /\ SubSeq(reviews', 1, Len(reviews)) = reviews]_vars

\* a request has ended in a 500 with a record already in the log
C3_Witness ==
    /\ request.route = ReviewRoute
    /\ response.status = 500
    /\ Len(reviews) >= 1

\* the value of the body's "code", when the body is an object that has one
CodeOf(body) == body.members.code

HasCodeKey(body) == body.type = "object" /\ "code" \in DOMAIN body.members

\* C4: POST /api/review answers every validation failure with 400, in a
\* fixed order: a body that is not JSON or has no code key gets 'Code is
\* required'; else a code empty after trimming gets 'Code cannot be
\* empty'; else a code of more than 10,000 characters gets the too-large
\* error; a code of exactly 10,000 characters is accepted.
C4_ValidationAnswers400 ==
    request.route = ReviewRoute =>
        LET body == request.body
        IN  IF ~HasCodeKey(body)
            THEN response = bad_request("Code is required")
            ELSE CodeOf(body).type = "string" =>
                 IF str_len(strip(CodeOf(body).text)) = 0
                 THEN response = bad_request("Code cannot be empty")
                 ELSE IF str_len(CodeOf(body).text) > 10000
                 THEN response =
                      bad_request("Code is too large (max 10,000 characters)")
                 ELSE response.status # 400

\* C5: after n successful submissions GET /api/history returns min(n, 10)
\* records, the most recent ones, newest first: ids n, n-1, ..., max(1, n-9).
C5_HistoryNewestFirst ==
    request.route = "/api/history" =>
        LET n == successes
            got == response.body.reviews
        IN  /\ response.status = 200
            /\ response.body.success
            /\ Len(got) = Min(n, 10)
            /\ \A i \in 1..Len(got) :
                   got[i].id = n - i + 1 /\ got[i] = reviews[n - i + 1]

\* after 12 submissions the ids returned are 12, 11, ..., 3
C5_Witness ==
    /\ request.route = "/api/history"
    /\ successes = 12
    /\ [i \in 1..10 |-> response.body.reviews[i].id]
          = <<12, 11, 10, 9, 8, 7, 6, 5, 4, 3>>

\* the sum of a field over the first k records of the log
RECURSIVE LogTotal(_, _)
LogTotal(k, field) ==
    IF k = 0 THEN 0 ELSE reviews[k][field] + LogTotal(k - 1, field)

\* C6: GET /api/stats reports over the whole log: total_reviews is the
\* number of successful submissions, total_issues the sum of issues_count,
\* avg_score the mean of the scores rounded to one decimal (within 0.05 of
\* the mean, given in tenths); on an empty log all three are 0.
C6_StatsOverWholeLog ==
    request.route = "/api/stats" =>
        LET n == successes
            stats == response.body.stats
            total == LogTotal(Len(reviews), "score")
            off == 10 * total - stats.avg_score * n
        IN  /\ response.status = 200
            /\ response.body.success
            /\ stats.total_reviews = n
            /\ stats.total_issues = LogTotal(Len(reviews), "issues_count")
            /\ IF n = 0 THEN stats.avg_score = 0
               ELSE 2 * off <= n /\ -2 * off <= n

\* statistics of more than ten records whose mean is no whole number
C6_Witness ==
    /\ request.route = "/api/stats"
    /\ successes > 10
    /\ response.body.stats.avg_score % 10 # 0

\* C7: GET /, GET /api/history and GET /api/stats leave the log unchanged,
\* and a GET /api/stats (or /api/history) returns what the one before it
\* returned when no POST /api/review succeeded in between, whatever
\* read-only or rejected requests were handled in between.
C7_ReadsChangeNothing ==
    [][/\ request'.route \in {"/", "/api/history", "/api/stats"} =>
            reviews' = reviews
       /\ request'.route = "/api/stats" /\ seen.stats # <<>> =>
            response'.body = seen.stats[1]
       /\ request'.route = "/api/history" /\ seen.history # <<>> =>
            response'.body = seen.history[1]]_vars

\* statistics asked of a log of two records, with a rejected POST and a
\* GET /api/history since the last successful POST
C7_Witness ==
    /\ request.route = "/api/stats"
    /\ seen.rejected
    /\ seen.history # <<>>
    /\ Len(reviews) = 2

\* C8: for every text and label that validation accepts, the score the
\* analyzer returns, and so the score of every record of the log, is
\* between 0 and 100.
C8_ScoreInRange ==
    /\ \A k \in 1..Len(reviews) : reviews[k].score \in 0..100
    /\ Accepted =>
          /\ response.body.analysis.score \in 0..100
          /\ reviews[Len(reviews)].score = response.body.analysis.score

\* an accepted request whose code has a password and an =, and its record
C8_Witness ==
    /\ Accepted
    /\ request.body = RubyPassword
    /\ reviews = <<[id |-> 1, timestamp |-> 1, language |-> Str("ruby"),
                    code_length |-> 9, score |-> 80, issues_count |-> 1]>>

\* the number of newline characters of a text
RECURSIVE NewlineCount(_)
NewlineCount(s) ==
    IF s = <<>> THEN 0
    ELSE (IF s[1][1] = NL THEN s[1][2] ELSE 0) + NewlineCount(Tail(s))

\* the length of the longest line of a text; cur is the length so far of the
\* line the text continues
RECURSIVE LongestLine(_, _)
LongestLine(s, cur) ==
    IF s = <<>> THEN cur
    ELSE IF s[1][1] = NL THEN Max(cur, LongestLine(Tail(s), 0))
    ELSE LongestLine(Tail(s), cur + Len(s[1][1]) * s[1][2])

\* one of the words occurs in the text
Occurs(words, s) == \E i \in 1..Len(s) : s[i][1] \in words

One(cond) == IF cond THEN 1 ELSE 0

\* C9: the score is 100 minus the sum of: 5 for more than 200 lines, 3 for
\* any line longer than 100 characters, 5 for python without try:, 5 for
\* python without a triple quote, 5 for javascript with 'var ', 20 for
\* password (any case) together with =, whatever the language. print( and
\* console.log add an issue and take nothing off; java never pays for var.
C9_ScoreIsHundredMinusPenalties ==
    call.made =>
        LET code == call.code
            python == call.language \in {Str("python"), Str("Python")}
            javascript ==
                call.language \in {Str("javascript"), Str("JavaScript")}
            java == call.language = Str("java")
            large == NewlineCount(code) + 1 > 200
            long == LongestLine(code, 0) > 100
            no_try == python /\ ~Occurs({"try:"}, code)
            no_doc == python /\ ~Occurs({"\"\"\"", "'''"}, code)
            var == javascript /\ Occurs({"var "}, code)
            secret == Occurs({"password", "Password"}, code)
                      /\ Occurs({"="}, code)
            print == python /\ Occurs({"print("}, code)
            console == (javascript \/ java) /\ Occurs({"console.log"}, code)
        IN  /\ call.result.score =
                 100 - 5 * One(large) - 3 * One(long) - 5 * One(no_try)
                     - 5 * One(no_doc) - 5 * One(var) - 20 * One(secret)
            /\ Len(call.result.issues) =
                 One(large) + One(long) + One(print) + One(var) + One(console)
                 + One(secret)

\* a java text with 'var ' and console.log: one issue, nothing taken off
C9_Witness ==
    /\ call.made
    /\ call.language = Str("java")
    /\ call.code = Text(<<"var ", "console.log">>)
    /\ call.result.score = 100
    /\ Len(call.result.issues) = 1

\* C10: one analysis takes at most 38 off, so that a score is never below
\* 62 and the floor max(score, 0) never decides it; every score of the log
\* and the avg_score of a non-empty log are between 62 and 100.
C10_ScoreAtLeast62 ==
    /\ \A k \in 1..Len(reviews) : reviews[k].score \in 62..100
    /\ Accepted => response.body.analysis.score \in 62..100
    /\ request.route = "/api/stats" /\ reviews # <<>> =>
          response.body.stats.avg_score \in 620..1000

\* the statistics of a log that holds nothing but a record of score 62
C10_Witness ==
    /\ request.route = "/api/stats"
    /\ Len(reviews) = 1
    /\ reviews[1].score = 62
    /\ response.body.stats.avg_score = 620

====
